---- MODULE Spec2Model ----
(***************************************************************************)
(* The @auto directive transformer: class AutoTransformer in its version   *)
(* with the per-type templateParts record and the `after` hook, which is   *)
(* lines 302-529 of src/__tests__/AutoTransformer.test.ts (with utils.ts). *)
(* src/AutoTransformer.ts holds an earlier version of the class, whose     *)
(* field handler validates and rewrites the inputs the same way but        *)
(* prepends its block to the resolvers at once and has no `after` hook.    *)
(*                                                                         *)
(* Encoding of the JavaScript values:                                      *)
(*  - an AST node or a JS object is a record;                              *)
(*  - a directive's `arguments` is a record argument name -> literal       *)
(*    value; an argument that is not written is not in its DOMAIN;         *)
(*  - `T | undefined` results (find, findDirective) are sequences of       *)
(*    length 0 (undefined) or 1;                                           *)
(*  - a TypeNode is the sequence of its wrappers, outermost first, ending  *)
(*    with the named type: String! is <<"NonNullType", "String">>;         *)
(*  - template text is a sequence of tokens, "\n" being one newline        *)
(*    character and every other token a piece of text without newlines.    *)
(***************************************************************************)
EXTENDS Integers, Sequences, FiniteSets, TLC

VARIABLES host, types, resources, templateParts, phase, visited, keyDone, run, last

vars == <<host, types, resources, templateParts, phase, visited, keyDone, run, last>>

(***************************************************************************)
(* Bounds                                                                  *)
(***************************************************************************)
MaxRuns == 2
MaxAuto == 2

TypeNames == {"Post", "Comment"}
FieldNames == {"owner", "editors", "updatedAt", "__typename"}

NL == "\n"
JsNull == [jsType |-> "null"]
EmptyObject == [k \in {} |-> ""]

(***************************************************************************)
(* graphql / graphql-transformer-common helpers, as the handler uses them  *)
(***************************************************************************)
isNonNullType(type) == Head(type) = "NonNullType"

RECURSIVE unwrapNonNull(_)
unwrapNonNull(type) ==
    IF Head(type) = "NonNullType" THEN unwrapNonNull(Tail(type)) ELSE type

makeInputValueDefinition(name, type) ==
    [kind |-> "InputValueDefinition", name |-> name, type |-> type, directives |-> <<>>]

ModelCreateInputObjectName(typeName) == "Create" \o typeName \o "Input"
ModelUpdateInputObjectName(typeName) == "Update" \o typeName \o "Input"
DynamoDBCreateResolverResourceID(typeName) == "Create" \o typeName \o "Resolver"
DynamoDBUpdateResolverResourceID(typeName) == "Update" \o typeName \o "Resolver"

qref(value) == "$util.qr(" \o value \o ")"

RECURSIVE joinLines(_)
joinLines(lines) ==
    IF Len(lines) = 0 THEN <<>>
    ELSE IF Len(lines) = 1 THEN lines
    ELSE <<Head(lines), NL>> \o joinLines(Tail(lines))

compoundExpression(expressions) == joinLines(expressions)

printBlock(name, expression) ==
    <<"## [Start] " \o name \o ". **", NL>> \o expression
        \o <<NL, "## [End] " \o name \o ". **">>

(***************************************************************************)
(* utils.ts                                                                *)
(***************************************************************************)
hasArg(directive, argName) == argName \in DOMAIN directive.arguments

getArgValueFromDirective(directive, argName, defaultValue) ==
    IF hasArg(directive, argName) THEN directive.arguments[argName] ELSE defaultValue

findDirective(node, directiveName) ==
    LET found == SelectSeq(node.directives, LAMBDA directive : directive.name = directiveName)
    IN  IF Len(found) = 0 THEN <<>> ELSE <<Head(found)>>

removeUndefinedValue(object) ==
    IF object = JsNull THEN EmptyObject
    ELSE [prop \in {p \in DOMAIN object : object[p] # "undefined"} |-> object[prop]]

isEmpty(object) == DOMAIN object = {}

(***************************************************************************)
(* TransformerContext: the type registry and the resource map              *)
(***************************************************************************)
getType(ctxTypes, name) == IF name \in DOMAIN ctxTypes THEN <<ctxTypes[name]>> ELSE <<>>

\* Mutant: only the kind, the name and the fields of the type are written back.
putType_Bare(ctxTypes, obj) ==
    [n \in DOMAIN ctxTypes \cup {obj.name} |->
        IF n = obj.name THEN [kind |-> obj.kind, name |-> obj.name, fields |-> obj.fields]
        ELSE ctxTypes[n]]

putType(ctxTypes, obj) ==
    [n \in DOMAIN ctxTypes \cup {obj.name} |-> IF n = obj.name THEN obj ELSE ctxTypes[n]]

getResource(ctxResources, id) ==
    IF id \in DOMAIN ctxResources THEN <<ctxResources[id]>> ELSE <<>>

setResource(ctxResources, id, resource) ==
    [n \in DOMAIN ctxResources \cup {id} |-> IF n = id THEN resource ELSE ctxResources[n]]

(***************************************************************************)
(* Errors                                                                  *)
(***************************************************************************)
NoError == [name |-> "none", message |-> ""]

InterfaceError(parent, fieldDefinition) ==
    [name |-> "InvalidDirectiveError",
     message |-> "The @auto directive cannot be placed on an interface's field. See "
                    \o parent.name \o fieldDefinition.name]

ModelError ==
    [name |-> "InvalidDirectiveError",
     message |-> "Types annotated with @auto must also be annotated with @model."]

NullableError ==
    [name |-> "TransformerContractError",
     message |-> "@auto directive can only be used on non-nullable type fields"]

ZeroFieldsError(autoField, typeName) ==
    [name |-> "InvalidDirectiveError",
     message |-> "After stripping away version field \"" \o autoField.name
                    \o "\", the create input for type \"" \o typeName
                    \o "\" cannot be created with 0 fields. Add another field to type \""
                    \o typeName \o "\" to continue."]

(***************************************************************************)
(* AutoTransformer.updateInput                                             *)
(***************************************************************************)
\* Mutant: the annotated field is not filtered out.
fieldsWithoutAutoField_Kept(input, autoField) == input.fields

fieldsWithoutAutoField(input, autoField) ==
    SelectSeq(input.fields, LAMBDA f : f.name # autoField.name)

\* Mutant: the matching field is left as it is, non-null wrapper included.
fieldsWithNullableAutoField_Same(input, autoField) == input.fields

fieldsWithNullableAutoField(input, autoField) ==
    [i \in 1..Len(input.fields) |->
        IF input.fields[i].name = autoField.name
        THEN makeInputValueDefinition(autoField.name, unwrapNonNull(autoField.type))
        ELSE input.fields[i]]

\* Mutant: the stripped input is written back before the zero-field check.
updateInput_CommitFirst(ctxTypes, inputName, typeName, autoField, nullable) ==
    LET input == getType(ctxTypes, inputName)
    IN  IF ~(/\ Len(input) = 1
             /\ input[1].kind = "InputObjectTypeDefinition"
             /\ "fields" \in DOMAIN input[1])
        THEN [types |-> ctxTypes, error |-> NoError]
        ELSE LET updatedFields ==
                     IF nullable THEN fieldsWithNullableAutoField(input[1], autoField)
                     ELSE fieldsWithoutAutoField(input[1], autoField)
                 written == putType(ctxTypes, [input[1] EXCEPT !.fields = updatedFields])
             IN  IF Len(updatedFields) = 0 /\ ~nullable
                 THEN [types |-> written, error |-> ZeroFieldsError(autoField, typeName)]
                 ELSE [types |-> written, error |-> NoError]

\* Mutant: the zero-field check does not look at the flag.
updateInput_AnyFlag(ctxTypes, inputName, typeName, autoField, nullable) ==
    LET input == getType(ctxTypes, inputName)
    IN  IF ~(/\ Len(input) = 1
             /\ input[1].kind = "InputObjectTypeDefinition"
             /\ "fields" \in DOMAIN input[1])
        THEN [types |-> ctxTypes, error |-> NoError]
        ELSE LET updatedFields ==
                     IF nullable
                     THEN [i \in 1..Len(input[1].fields) |->
                              IF input[1].fields[i].name = autoField.name
                              THEN makeInputValueDefinition(autoField.name,
                                                            unwrapNonNull(autoField.type))
                              ELSE input[1].fields[i]]
                     ELSE SelectSeq(input[1].fields, LAMBDA f : f.name # autoField.name)
             IN  IF Len(SelectSeq(input[1].fields, LAMBDA f : f.name # autoField.name)) = 0
                 THEN [types |-> ctxTypes, error |-> ZeroFieldsError(autoField, typeName)]
                 ELSE [types |-> putType(ctxTypes, [input[1] EXCEPT !.fields = updatedFields]),
                       error |-> NoError]

\* The result is the registry after the call and the error thrown, if any.
updateInput(ctxTypes, inputName, typeName, autoField, nullable) ==
    LET input == getType(ctxTypes, inputName)
    IN  IF ~(/\ Len(input) = 1
             /\ input[1].kind = "InputObjectTypeDefinition"
             /\ "fields" \in DOMAIN input[1])
        THEN [types |-> ctxTypes, error |-> NoError]
        ELSE LET updatedFields ==
                     IF nullable THEN fieldsWithNullableAutoField(input[1], autoField)
                     ELSE fieldsWithoutAutoField(input[1], autoField)
             IN  IF Len(updatedFields) = 0 /\ ~nullable
                 THEN [types |-> ctxTypes, error |-> ZeroFieldsError(autoField, typeName)]
                 ELSE [types |-> putType(ctxTypes, [input[1] EXCEPT !.fields = updatedFields]),
                       error |-> NoError]

updateCreateInput(ctxTypes, typeName, autoField, nullable) ==
    updateInput(ctxTypes, ModelCreateInputObjectName(typeName), typeName, autoField, nullable)

updateUpdateInput(ctxTypes, typeName, autoField, nullable) ==
    updateInput(ctxTypes, ModelUpdateInputObjectName(typeName), typeName, autoField, nullable)

(***************************************************************************)
(* AutoTransformer.updateResolver                                          *)
(***************************************************************************)
\* Mutant: one newline between the block and the previous text.
join_OneNewline(templateParts2) == templateParts2[1] \o <<NL>> \o templateParts2[2]

join(templateParts2) == templateParts2[1] \o <<NL, NL>> \o templateParts2[2]

\* Mutant: the code is put after the existing template text.
updateResolver_Append(ctxResources, resolverResourceId, code) ==
    LET resolver == getResource(ctxResources, resolverResourceId)
    IN  IF Len(resolver) = 1
        THEN setResource(ctxResources, resolverResourceId,
                 [resolver[1] EXCEPT !.Properties.RequestMappingTemplate =
                     resolver[1].Properties.RequestMappingTemplate \o <<NL, NL>> \o code])
        ELSE ctxResources

updateResolver(ctxResources, resolverResourceId, code) ==
    LET resolver == getResource(ctxResources, resolverResourceId)
    IN  IF Len(resolver) = 1
        THEN setResource(ctxResources, resolverResourceId,
                 [resolver[1] EXCEPT !.Properties.RequestMappingTemplate =
                     join(<<code, resolver[1].Properties.RequestMappingTemplate>>)])
        ELSE ctxResources

(***************************************************************************)
(* AutoTransformer.field                                                   *)
(***************************************************************************)
includes(array, element) == \E i \in 1..Len(array) : array[i] = element

\* keyFields.find((field) => ownerFields.includes(field))
findOwnerField(keyFields, ownerFields) ==
    LET found == SelectSeq(keyFields, LAMBDA field : includes(ownerFields, field))
    IN  IF Len(found) = 0 THEN <<>> ELSE <<Head(found)>>

\* {...a, ...b}
spread(a, b) == [k \in DOMAIN a \cup DOMAIN b |-> IF k \in DOMAIN b THEN b[k] ELSE a[k]]

\* templateParts[objectTypeName][slot] = expression
setPart(parts, objectTypeName, slot, expression) ==
    [parts EXCEPT ![objectTypeName] =
        [k \in DOMAIN parts[objectTypeName] \cup {slot} |->
            IF k = slot THEN expression ELSE parts[objectTypeName][k]]]

updatedAtExpression(updatedAt) ==
    qref("$context.args.input.put(\"" \o updatedAt \o "\", $util.defaultIfNull($ctx.args.input."
            \o updatedAt \o ", $util.time.nowISO8601()))")

typenameExpression(objectTypeName) ==
    qref("$context.args.input.put(\"__typename\", \"" \o objectTypeName \o "\")")

identityValue ==
    "$util.defaultIfNull($ctx.identity.claims.get(\"username\"), $util.defaultIfNull($ctx.identity.claims.get(\"cognito:username\"), \"___xamznone____\"))"

ownerExpression(ownerField) ==
    qref("$context.args.input.put(\"" \o ownerField \o "\", $util.defaultIfNull($ctx.args.input.get(\""
            \o ownerField \o "\"), " \o identityValue \o "))")

\* rules.map((rule) => rule.ownerField || 'owner')
ownerFieldsOf(rules) ==
    [i \in 1..Len(rules) |->
        IF "ownerField" \in DOMAIN rules[i] /\ rules[i].ownerField # ""
        THEN rules[i].ownerField ELSE "owner"]

NoFlags ==
    [useUpdatedAtField |-> FALSE, useTypeName |-> FALSE, useOwner |-> FALSE, ownerField |-> "owner"]

\* Mutant: every @key counts as the primary index.
isPrimaryIndex_Always(keyDirective) == TRUE

\* !getArgValueFromDirective(keyDirective, 'name'): no name argument, or a falsy
\* one (the empty string).
isPrimaryIndex(keyDirective) ==
    ~hasArg(keyDirective, "name") \/ keyDirective.arguments.name = ""

\* The loop over the @key directives of the owning type, in their order.
RECURSIVE keyLoop(_, _, _, _, _)
keyLoop(keyDirectives, currentFieldName, timestampConfig, ownerFields, flags) ==
    IF Len(keyDirectives) = 0 THEN flags
    ELSE LET keyDirective == Head(keyDirectives)
             rest == Tail(keyDirectives)
         IN  IF \/ ~hasArg(keyDirective, "fields")
                \/ ~isPrimaryIndex(keyDirective)
                \/ ~includes(keyDirective.arguments.fields, currentFieldName)
             THEN keyLoop(rest, currentFieldName, timestampConfig, ownerFields, flags)
             ELSE IF currentFieldName = timestampConfig.updatedAt
             THEN keyLoop(rest, currentFieldName, timestampConfig, ownerFields,
                          [flags EXCEPT !.useUpdatedAtField = TRUE])
             ELSE LET ownerFieldFound ==
                          findOwnerField(keyDirective.arguments.fields, ownerFields)
                  IN  IF Len(ownerFieldFound) = 1 /\ currentFieldName = ownerFieldFound[1]
                      THEN keyLoop(rest, currentFieldName, timestampConfig, ownerFields,
                                   [flags EXCEPT !.ownerField = ownerFieldFound[1],
                                                 !.useOwner = TRUE])
                      ELSE IF currentFieldName = "__typename"
                      THEN keyLoop(rest, currentFieldName, timestampConfig, ownerFields,
                                   [flags EXCEPT !.useTypeName = TRUE])
                      ELSE keyLoop(rest, currentFieldName, timestampConfig, ownerFields, flags)

\* Lines 354-430: the fragments recorded for one field, once both inputs are updated.
recordTemplateParts(self, parent, modelDirective, fieldDefinition) ==
    LET objectTypeName == parent.name
        keyDirectives == SelectSeq(parent.directives, LAMBDA d : d.name = "key")
        authDirective == findDirective(parent, "auth")
        ownerFields ==
            IF Len(authDirective) = 1
            THEN ownerFieldsOf(authDirective[1].arguments.rules)
            ELSE <<>>
        defaultTimestampConfig == [updatedAt |-> "updatedAt"]
        timestampConfig ==
            spread(defaultTimestampConfig,
                   removeUndefinedValue(
                       getArgValueFromDirective(modelDirective, "timestamps", EmptyObject)))
        currentFieldName == fieldDefinition.name
        flags == keyLoop(keyDirectives, currentFieldName, timestampConfig, ownerFields, NoFlags)
        created ==
            IF objectTypeName \in DOMAIN self THEN self
            ELSE [t \in DOMAIN self \cup {objectTypeName} |->
                     IF t = objectTypeName THEN EmptyObject ELSE self[t]]
        withTypeName ==
            IF flags.useTypeName
            THEN setPart(created, objectTypeName, "__typename", typenameExpression(objectTypeName))
            ELSE created
    IN  IF ~flags.useUpdatedAtField /\ ~flags.useTypeName /\ ~flags.useOwner THEN self
        ELSE IF flags.useUpdatedAtField
        THEN setPart(created, objectTypeName, "updatedAt",
                     updatedAtExpression(timestampConfig.updatedAt))
        ELSE IF flags.useOwner
        THEN setPart(withTypeName, objectTypeName, "owner", ownerExpression(flags.ownerField))
        ELSE withTypeName

\* Mutant: the non-null check comes first.
validate_NullableFirst(parent, fieldDefinition) ==
    IF ~isNonNullType(fieldDefinition.type) THEN NullableError
    ELSE IF parent.kind = "InterfaceTypeDefinition" THEN InterfaceError(parent, fieldDefinition)
    ELSE IF Len(findDirective(parent, "model")) = 0 THEN ModelError
    ELSE NoError

\* Lines 322-335: the three checks, in the handler's order; NoError when all pass.
validate(parent, fieldDefinition) ==
    IF parent.kind = "InterfaceTypeDefinition" THEN InterfaceError(parent, fieldDefinition)
    ELSE IF Len(findDirective(parent, "model")) = 0 THEN ModelError
    ELSE IF ~isNonNullType(fieldDefinition.type) THEN NullableError
    ELSE NoError

\* Mutant: the handler puts the block of the fragment it records in front of the
\* update resolver at once.
field_EmitsAtOnce(self, ctxTypes, ctxResources, parent, fieldDefinition, directive) ==
    IF validate(parent, fieldDefinition) # NoError
    THEN [types |-> ctxTypes, resources |-> ctxResources, templateParts |-> self,
          error |-> validate(parent, fieldDefinition)]
    ELSE LET modelDirective == findDirective(parent, "model")
             objectTypeName == parent.name
             creatable == getArgValueFromDirective(directive, "creatable", FALSE)
             updatable == getArgValueFromDirective(directive, "updatable", FALSE)
             created == updateCreateInput(ctxTypes, objectTypeName, fieldDefinition, creatable)
             updated == updateUpdateInput(created.types, objectTypeName, fieldDefinition, updatable)
             parts == recordTemplateParts(self, parent, modelDirective[1], fieldDefinition)
         IN  IF created.error # NoError
             THEN [types |-> created.types, resources |-> ctxResources,
                   templateParts |-> self, error |-> created.error]
             ELSE IF updated.error # NoError
             THEN [types |-> updated.types, resources |-> ctxResources,
                   templateParts |-> self, error |-> updated.error]
             ELSE [types |-> updated.types,
                   resources |->
                       IF parts = self THEN ctxResources
                       ELSE updateResolver(ctxResources,
                                DynamoDBUpdateResolverResourceID(objectTypeName),
                                printBlock("[@auto] Prepare DynamoDB UpdateItem Request",
                                    compoundExpression(
                                        [i \in 1..1 |->
                                            parts[objectTypeName][
                                                CHOOSE slot \in DOMAIN parts[objectTypeName] : TRUE]]))),
                   templateParts |-> parts,
                   error |-> NoError]

\* The handler's result: the registry, the resource map and the fragment record it
\* leaves, and the error it throws, if any. The context is passed on to
\* updateCreateInput and updateUpdateInput only, which use its registry; the
\* handler has no call of updateResolver, getResource or setResource.
field(self, ctxTypes, ctxResources, parent, fieldDefinition, directive) ==
    IF validate(parent, fieldDefinition) # NoError
    THEN [types |-> ctxTypes, resources |-> ctxResources, templateParts |-> self,
          error |-> validate(parent, fieldDefinition)]
    ELSE LET modelDirective == findDirective(parent, "model")
             objectTypeName == parent.name
             creatable == getArgValueFromDirective(directive, "creatable", FALSE)
             updatable == getArgValueFromDirective(directive, "updatable", FALSE)
             created == updateCreateInput(ctxTypes, objectTypeName, fieldDefinition, creatable)
             updated == updateUpdateInput(created.types, objectTypeName, fieldDefinition, updatable)
         IN  IF created.error # NoError
             THEN [types |-> created.types, resources |-> ctxResources,
                   templateParts |-> self, error |-> created.error]
             ELSE IF updated.error # NoError
             THEN [types |-> updated.types, resources |-> ctxResources,
                   templateParts |-> self, error |-> updated.error]
             ELSE [types |-> updated.types,
                   resources |-> ctxResources,
                   templateParts |->
                       recordTemplateParts(self, parent, modelDirective[1], fieldDefinition),
                   error |-> NoError]

(***************************************************************************)
(* AutoTransformer.after                                                   *)
(***************************************************************************)
\* [a, b, ...].filter(Boolean) over the slots of one type's record, in the given order
recorded(parts, slots) ==
    LET present == SelectSeq(slots, LAMBDA slot : slot \in DOMAIN parts)
    IN  [i \in 1..Len(present) |-> parts[present[i]]]

\* Mutant: the create block takes the updated-at fragment too.
templateForCreateResolver_WithUpdatedAt(parts) ==
    recorded(parts, <<"owner", "updatedAt", "__typename">>)

templateForCreateResolver(parts) == recorded(parts, <<"owner", "__typename">>)
templateForUpdateResolver(parts) == recorded(parts, <<"owner", "updatedAt", "__typename">>)

\* The body of the for-in loop for one object type.
afterType(ctxResources, objectTypeName, parts) ==
    LET forCreate == templateForCreateResolver(parts)
        forUpdate == templateForUpdateResolver(parts)
        afterCreate ==
            IF Len(forCreate) # 0
            THEN updateResolver(ctxResources, DynamoDBCreateResolverResourceID(objectTypeName),
                     printBlock("[@auto] Prepare DynamoDB PutItem Request",
                                compoundExpression(forCreate)))
            ELSE ctxResources
    IN  IF Len(forUpdate) # 0
        THEN updateResolver(afterCreate, DynamoDBUpdateResolverResourceID(objectTypeName),
                 printBlock("[@auto] Prepare DynamoDB UpdateItem Request",
                            compoundExpression(forUpdate)))
        ELSE afterCreate

RECURSIVE afterLoop(_, _, _)
afterLoop(ctxResources, self, typeNames) ==
    IF typeNames = {} THEN ctxResources
    ELSE LET objectTypeName == CHOOSE t \in typeNames : TRUE
         IN  afterLoop(afterType(ctxResources, objectTypeName, self[objectTypeName]),
                       self, typeNames \ {objectTypeName})

after(self, ctxResources) ==
    IF isEmpty(self) THEN ctxResources
    ELSE afterLoop(ctxResources, self, DOMAIN self)

(***************************************************************************)
(* The host: the parsed schema, and the registry and the resource map the  *)
(* model transformer has filled when the @auto handlers start.             *)
(***************************************************************************)
Directive(name, arguments) == [name |-> name, arguments |-> arguments]

FieldDefinition(name, type, directives) ==
    [kind |-> "FieldDefinition", name |-> name, type |-> type, directives |-> directives]

TypeDefinition(kind, name, directives, fields) ==
    [kind |-> kind, name |-> name, directives |-> directives, fields |-> fields]

InputObject(name, fields) ==
    [kind |-> "InputObjectTypeDefinition", name |-> name, directives |-> <<>>, fields |-> fields]

Resolver(fieldName, template) ==
    [Type |-> "AWS::AppSync::Resolver",
     Properties |-> [FieldName |-> fieldName, RequestMappingTemplate |-> template]]

OriginalTemplate(fieldName) ==
    <<"## [Start] Prepare DynamoDB request of " \o fieldName \o ". **", NL,
      "$util.toJson($ctx.args.input)">>

NonNullString == <<"NonNullType", "String">>
NonNullID == <<"NonNullType", "ID">>

\* A function from a set of names, given as the set of its <<name, value>> pairs.
Table(pairs) ==
    [n \in {pr[1] : pr \in pairs} |-> (CHOOSE pr \in pairs : pr[1] = n)[2]]

Merge(f, g) == [n \in DOMAIN f \cup DOMAIN g |-> IF n \in DOMAIN f THEN f[n] ELSE g[n]]

\* The inputs the model transformer generates from a type: every field, the create
\* input with the declared types, the update input with nullable ones.
GeneratedInputs(def) ==
    Table({<<ModelCreateInputObjectName(def.name),
             InputObject(ModelCreateInputObjectName(def.name),
                 [i \in 1..Len(def.fields) |->
                     makeInputValueDefinition(def.fields[i].name, def.fields[i].type)])>>,
           <<ModelUpdateInputObjectName(def.name),
             InputObject(ModelUpdateInputObjectName(def.name),
                 [i \in 1..Len(def.fields) |->
                     makeInputValueDefinition(def.fields[i].name,
                                              unwrapNonNull(def.fields[i].type))])>>})

CommentDefinition ==
    TypeDefinition("ObjectTypeDefinition", "Comment",
        <<Directive("model", EmptyObject),
          Directive("key", [fields |-> <<"owner">>]),
          Directive("auth", [rules |-> <<EmptyObject>>])>>,
        <<FieldDefinition("id", NonNullID, <<>>),
          FieldDefinition("owner", NonNullID, <<Directive("auto", EmptyObject)>>)>>)

\* The Comment type has no create mutation (@model(mutations: ...) can drop it).
CommentResources ==
    Table({<<DynamoDBUpdateResolverResourceID("Comment"),
             Resolver("updateComment", OriginalTemplate("updateComment"))>>})

PostResources ==
    Table({<<DynamoDBCreateResolverResourceID("Post"),
             Resolver("createPost", OriginalTemplate("createPost"))>>,
           <<DynamoDBUpdateResolverResourceID("Post"),
             Resolver("updatePost", OriginalTemplate("updatePost"))>>})

\* What one transform run starts from, for a Post definition and its two inputs
\* (postInputs is a function from the names of the inputs that exist).
Host(post, postInputs) ==
    [schema |-> Table({<<"Post", post>>, <<"Comment", CommentDefinition>>}),
     types |-> Merge(Table({<<"Post", post>>, <<"Comment", CommentDefinition>>}),
                     Merge(postInputs, GeneratedInputs(CommentDefinition))),
     resources |-> Merge(PostResources, CommentResources)]

(***************************************************************************)
(* Schemas of the specification Spec: every field of Post is a non-null    *)
(* scalar, some carry @auto, and the @model, @key and @auth directives of  *)
(* Post vary.                                                              *)
(***************************************************************************)
FieldOrder == <<"owner", "editors", "updatedAt", "__typename">>

AutoSets == {S \in SUBSET FieldNames : Cardinality(S) >= 1 /\ Cardinality(S) <= MaxAuto}

ModelArguments ==
    {EmptyObject,
     [timestamps |-> [updatedAt |-> "editors"]],
     [timestamps |-> [updatedAt |-> "null"]]}

KeyFieldLists ==
    {<<a>> : a \in FieldNames}
        \cup {<<pr[1], pr[2]>> : pr \in {q \in FieldNames \X FieldNames : q[1] # q[2]}}

KeyDirectives ==
    {Directive("key", [fields |-> l]) : l \in KeyFieldLists}
        \cup {Directive("key", EmptyObject)}
        \cup {Directive("key", [name |-> "byField", fields |-> <<a>>]) : a \in FieldNames}
        \cup {Directive("key", [name |-> "", fields |-> <<a>>]) : a \in FieldNames}

KeyConfigs ==
    {<<>>}
        \cup {<<d>> : d \in KeyDirectives}
        \cup {<<Directive("key", [fields |-> <<pr[1]>>]), Directive("key", [fields |-> <<pr[2]>>])>> :
                 pr \in {q \in FieldNames \X FieldNames : q[1] # q[2]}}

RuleLists ==
    {<<EmptyObject>>, <<[ownerField |-> "editors"]>>, <<EmptyObject, [ownerField |-> "editors"]>>}

AuthConfigs == {<<>>} \cup {<<Directive("auth", [rules |-> rules])>> : rules \in RuleLists}

PostFields(autoSet) ==
    <<FieldDefinition("id", NonNullID, <<>>)>>
        \o [i \in 1..Len(FieldOrder) |->
               FieldDefinition(FieldOrder[i], NonNullString,
                   IF FieldOrder[i] \in autoSet THEN <<Directive("auto", EmptyObject)>> ELSE <<>>)]

KeyedPost(modelArguments, keys, auth, autoSet) ==
    TypeDefinition("ObjectTypeDefinition", "Post",
        <<Directive("model", modelArguments)>> \o keys \o auth, PostFields(autoSet))

KeyedHosts ==
    {Host(post, GeneratedInputs(post)) :
        post \in {KeyedPost(m, k, a, s) :
                     m \in ModelArguments, k \in KeyConfigs, a \in AuthConfigs, s \in AutoSets}}

(***************************************************************************)
(* Schemas of the specification SpecInput: the kind and the @model of Post,*)
(* the type and the @auto arguments of its field owner, and the fields of  *)
(* its two inputs vary.                                                    *)
(***************************************************************************)
TypeChoices ==
    {NonNullString, <<"String">>, <<"NonNullType", "ListType", "NonNullType", "String">>}

AutoArguments ==
    {EmptyObject, [creatable |-> TRUE], [updatable |-> TRUE],
     [creatable |-> TRUE, updatable |-> TRUE], [creatable |-> FALSE, updatable |-> FALSE]}

ParentKinds == {"ObjectTypeDefinition", "InterfaceTypeDefinition"}

ModelConfigs == {<<>>, <<Directive("model", EmptyObject)>>, <<Directive("model", [timestamps |-> JsNull])>>}

InputFieldLists ==
    {<<>>, <<"owner">>, <<"updatedAt">>, <<"id", "owner", "updatedAt">>, <<"owner", "updatedAt">>}

ShapedPost(kind, model, ownerType, autoArguments, nAuto) ==
    TypeDefinition(kind, "Post",
        model \o <<Directive("key", [fields |-> <<"owner", "updatedAt">>]),
                   Directive("auth", [rules |-> <<EmptyObject>>])>>,
        <<FieldDefinition("id", NonNullID, <<>>),
          FieldDefinition("owner", ownerType, <<Directive("auto", autoArguments)>>),
          FieldDefinition("updatedAt", NonNullString,
              IF nAuto >= 2 THEN <<Directive("auto", EmptyObject)>> ELSE <<>>)>>)

DeclaredType(def, name) ==
    LET declared == SelectSeq(def.fields, LAMBDA f : f.name = name) IN declared[1].type

\* An input of Post with the listed fields, or no input (exists = FALSE).
ShapedInput(def, inputName, exists, names, nullable) ==
    IF ~exists THEN EmptyObject
    ELSE Table({<<inputName,
                  InputObject(inputName,
                      [i \in 1..Len(names) |->
                          makeInputValueDefinition(names[i],
                              IF nullable THEN unwrapNonNull(DeclaredType(def, names[i]))
                              ELSE DeclaredType(def, names[i]))])>>})

InputShapes == {<<FALSE, <<>>>>} \cup {<<TRUE, names>> : names \in InputFieldLists}

ShapedHosts ==
    {Host(post,
          Merge(ShapedInput(post, ModelCreateInputObjectName("Post"), c[1], c[2], FALSE),
                ShapedInput(post, ModelUpdateInputObjectName("Post"), u[1], u[2], TRUE))) :
        post \in {ShapedPost(k, m, t, a, n) :
                     k \in ParentKinds, m \in ModelConfigs, t \in TypeChoices,
                     a \in AutoArguments, n \in 1..MaxAuto},
        c \in InputShapes, u \in InputShapes}

(***************************************************************************)
(* The state machine                                                       *)
(***************************************************************************)
Call(op, type, fieldName, error) ==
    [op |-> op, type |-> type, field |-> fieldName, error |-> error]

\* The @auto directives of the schema: the occurrences the host visits.
AutoFields(schema) ==
    UNION {{<<t, i>> : i \in {j \in 1..Len(schema[t].fields) :
                                 Len(findDirective(schema[t].fields[j], "auto")) = 1}} :
              t \in DOMAIN schema}

InitOf(hosts) ==
    /\ host \in hosts
    /\ types = host.types
    /\ resources = host.resources
    /\ templateParts = EmptyObject
    /\ phase = "visit"
    /\ visited = {}
    /\ keyDone = FALSE
    /\ run = 1
    /\ last = Call("init", "", "", NoError)

Init == InitOf(KeyedHosts)

InitInput == InitOf(ShapedHosts)

\* The host walks the definitions in document order, Comment before Post; the
\* fields of one type are visited in any order.
Visitable(schema, seen) ==
    LET left == AutoFields(schema) \ seen
    IN  {occurrence \in left :
            occurrence[1] = "Comment" \/ \A other \in left : other[1] # "Comment"}

\* The host visits one @auto directive: field(parent, definition, directive, ctx).
\* A throw aborts the transform run.
Field ==
    /\ phase = "visit"
    /\ \E occurrence \in Visitable(host.schema, visited) :
          LET parent == host.schema[occurrence[1]]
              fieldDefinition == parent.fields[occurrence[2]]
              directive == findDirective(fieldDefinition, "auto")[1]
              result == field(templateParts, types, resources, parent, fieldDefinition, directive)
          IN  /\ types' = result.types
              /\ resources' = result.resources
              /\ templateParts' = result.templateParts
              /\ phase' = IF result.error = NoError THEN "visit" ELSE "failed"
              /\ visited' = visited \cup {occurrence}
              /\ last' = Call("field", parent.name, fieldDefinition.name, result.error)
    /\ UNCHANGED <<host, keyDone, run>>

\* The text the @key transformer puts in front of a mutation template: it reads
\* the key's fields from the input.
keySnippet(def) ==
    LET keyDirectives ==
            SelectSeq(def.directives, LAMBDA d : d.name = "key" /\ hasArg(d, "fields"))
        reads(fields) == [i \in 1..Len(fields) |-> "$ctx.args.input." \o fields[i]]
    IN  IF Len(keyDirectives) = 0 THEN <<>>
        ELSE <<"## [Start] Validate key arguments. **", NL>>
                 \o joinLines(reads(keyDirectives[1].arguments.fields))

\* The @key transformer puts its snippet, and a blank line, in front of a template.
joinSnippets(ctxResources, id, snippet) ==
    IF id \in DOMAIN ctxResources
    THEN [ctxResources EXCEPT ![id].Properties.RequestMappingTemplate =
             snippet \o <<NL, NL>> \o @]
    ELSE ctxResources

RECURSIVE keyLoopTypes(_, _, _)
keyLoopTypes(ctxResources, schema, typeNames) ==
    IF typeNames = {} THEN ctxResources
    ELSE LET t == CHOOSE n \in typeNames : TRUE
             snippet == keySnippet(schema[t])
             done ==
                 IF Len(snippet) = 0 THEN ctxResources
                 ELSE joinSnippets(
                          joinSnippets(ctxResources, DynamoDBCreateResolverResourceID(t), snippet),
                          DynamoDBUpdateResolverResourceID(t), snippet)
         IN  keyLoopTypes(done, schema, typeNames \ {t})

\* The @key transformer's pass over the schema: before, between or after the
\* visits of the @auto fields, and before every `after` hook.
KeyHandler ==
    /\ phase = "visit"
    /\ ~keyDone
    /\ keyDone' = TRUE
    /\ resources' = keyLoopTypes(resources, host.schema, DOMAIN host.schema)
    /\ UNCHANGED <<host, types, templateParts, phase, visited, run, last>>

\* The host calls after(ctx) once every field has been visited.
After ==
    /\ phase = "visit"
    /\ visited = AutoFields(host.schema)
    /\ resources' = after(templateParts, resources)
    /\ phase' = "finalized"
    /\ last' = Call("after", "", "", NoError)
    /\ UNCHANGED <<host, types, templateParts, visited, keyDone, run>>

\* The same transformer instance transforms the schema again: a new context,
\* the instance's fields kept.
NewRun ==
    /\ phase = "finalized"
    /\ run < MaxRuns
    /\ run' = run + 1
    /\ types' = host.types
    /\ resources' = host.resources
    /\ phase' = "visit"
    /\ visited' = {}
    /\ keyDone' = FALSE
    /\ last' = Call("init", "", "", NoError)
    /\ UNCHANGED <<host, templateParts>>

Next == Field \/ KeyHandler \/ After \/ NewRun

Spec == Init /\ [][Next]_vars

SpecInput == InitInput /\ [][Next]_vars

\* The schema of a host with the @key directives taken off its types: the document
\* the developer transforms next. The generated inputs and resolvers are the same.
WithoutKeys(h) ==
    LET unkeyed(def) ==
            [def EXCEPT !.directives = SelectSeq(@, LAMBDA d : d.name # "key")]
    IN  [h EXCEPT !.schema = [t \in DOMAIN h.schema |-> unkeyed(h.schema[t])],
                  !.types = [n \in DOMAIN h.types |->
                                IF n \in DOMAIN h.schema THEN unkeyed(h.types[n])
                                ELSE h.types[n]]]

\* The same transformer instance transforms another schema: a new context made
\* from the new document, the instance's fields kept.
NewSchemaRun ==
    /\ phase = "finalized"
    /\ run < MaxRuns
    /\ host' = WithoutKeys(host)
    /\ host' # host
    /\ run' = run + 1
    /\ types' = host'.types
    /\ resources' = host'.resources
    /\ phase' = "visit"
    /\ visited' = {}
    /\ keyDone' = FALSE
    /\ last' = Call("init", "", "", NoError)
    /\ UNCHANGED templateParts

NextRuns == Field \/ KeyHandler \/ After \/ NewRun \/ NewSchemaRun

SpecRuns == Init /\ [][NextRuns]_vars

(***************************************************************************)
(* Vocabulary of the properties                                            *)
(***************************************************************************)
FieldOf(occurrence) == host.schema[occurrence[1]].fields[occurrence[2]]

\* The value of a boolean argument of the occurrence's @auto directive (default false).
Flag(occurrence, arg) ==
    LET arguments == findDirective(FieldOf(occurrence), "auto")[1].arguments
    IN  arg \in DOMAIN arguments /\ arguments[arg]

\* The occurrence whose handler call threw, if the run has failed.
Threw(occurrence) ==
    /\ phase = "failed"
    /\ last.type = occurrence[1]
    /\ last.field = FieldOf(occurrence).name

\* The occurrences of this run whose handler call has returned without error.
Returned == {occurrence \in visited : ~Threw(occurrence)}

\* The positions of the fields called name in a registry entry.
Occurrences(entry, name) == {i \in 1..Len(entry.fields) : entry.fields[i].name = name}

\* A type without its outermost non-null wrapper.
OuterNonNullRemoved(type) == IF type[1] = "NonNullType" THEN SubSeq(type, 2, Len(type)) ELSE type

\* Input inputName exists and holds no field but (possibly) name.
StripsToNothing(ctxTypes, inputName, name) ==
    /\ inputName \in DOMAIN ctxTypes
    /\ \A i \in 1..Len(ctxTypes[inputName].fields) : ctxTypes[inputName].fields[i].name = name

\* This step is a call of the field handler, for occurrence TheCall.
FieldStep == visited' # visited /\ visited \subseteq visited'
TheCall == CHOOSE occurrence \in visited' \ visited : TRUE

(***************************************************************************)
(* C1: strip case. Once the handler has returned without error for an      *)
(* @auto field whose creatable argument is false or absent, the            *)
(* Create<Type>Input of the registry, when it exists, has no field of that *)
(* name; the same for updatable and Update<Type>Input.                     *)
(***************************************************************************)
C1_Strip ==
    \A occurrence \in Returned :
        LET name == FieldOf(occurrence).name
            createName == ModelCreateInputObjectName(occurrence[1])
            updateName == ModelUpdateInputObjectName(occurrence[1])
        IN  /\ (~Flag(occurrence, "creatable") /\ createName \in DOMAIN types)
                    => Occurrences(types[createName], name) = {}
            /\ (~Flag(occurrence, "updatable") /\ updateName \in DOMAIN types)
                    => Occurrences(types[updateName], name) = {}

\* The handler has returned for a field of Post that both generated inputs held,
\* with both flags off.
C1_Witness ==
    \E occurrence \in Returned :
        /\ occurrence[1] = "Post"
        /\ ~Flag(occurrence, "creatable") /\ ~Flag(occurrence, "updatable")
        /\ "CreatePostInput" \in DOMAIN types /\ "UpdatePostInput" \in DOMAIN types
        /\ Occurrences(host.types["CreatePostInput"], FieldOf(occurrence).name) # {}
        /\ Occurrences(host.types["UpdatePostInput"], FieldOf(occurrence).name) # {}

(***************************************************************************)
(* C2, as claimed: relax case. Once the handler has returned for an @auto  *)
(* field with creatable = true, Create<Type>Input (when it exists) has     *)
(* exactly one field of that name, typed as the declared type without its  *)
(* outermost non-null wrapper; the same for updatable and                  *)
(* Update<Type>Input.                                                      *)
(***************************************************************************)
Relaxed(occurrence, inputName, count) ==
    LET declared == FieldOf(occurrence)
        positions == Occurrences(types[inputName], declared.name)
    IN  /\ Cardinality(positions) = count
        /\ \A i \in positions :
              types[inputName].fields[i].type = OuterNonNullRemoved(declared.type)

C2_Original ==
    \A occurrence \in Returned :
        LET createName == ModelCreateInputObjectName(occurrence[1])
            updateName == ModelUpdateInputObjectName(occurrence[1])
        IN  /\ (Flag(occurrence, "creatable") /\ createName \in DOMAIN types)
                    => Relaxed(occurrence, createName, 1)
            /\ (Flag(occurrence, "updatable") /\ updateName \in DOMAIN types)
                    => Relaxed(occurrence, updateName, 1)

(***************************************************************************)
(* C2, amended: in the relax case the input has a field of that name       *)
(* exactly when the input the host generated had one, and then exactly one,*)
(* typed as the declared type without its outermost non-null wrapper; an   *)
(* input generated without the field is left without it.                   *)
(***************************************************************************)
C2_Relax ==
    \A occurrence \in Returned :
        LET name == FieldOf(occurrence).name
            createName == ModelCreateInputObjectName(occurrence[1])
            updateName == ModelUpdateInputObjectName(occurrence[1])
        IN  /\ (Flag(occurrence, "creatable") /\ createName \in DOMAIN types)
                    => Relaxed(occurrence, createName,
                               Cardinality(Occurrences(host.types[createName], name)))
            /\ (Flag(occurrence, "updatable") /\ updateName \in DOMAIN types)
                    => Relaxed(occurrence, updateName,
                               Cardinality(Occurrences(host.types[updateName], name)))

\* The handler has returned for a field of list type with creatable = true that the
\* generated create input held with its non-null wrapper.
C2_Witness ==
    \E occurrence \in Returned :
        /\ Flag(occurrence, "creatable")
        /\ FieldOf(occurrence).type = <<"NonNullType", "ListType", "NonNullType", "String">>
        /\ "CreatePostInput" \in DOMAIN types
        /\ \E i \in Occurrences(host.types["CreatePostInput"], FieldOf(occurrence).name) :
              /\ host.types["CreatePostInput"].fields[i].type = FieldOf(occurrence).type
              /\ types["CreatePostInput"].fields[i].type = <<"ListType", "NonNullType", "String">>

(***************************************************************************)
(* C3: a handler call that passes the three validation checks throws the   *)
(* zero-field directive-misuse error exactly when, for the create input or *)
(* (the create input passing) the update input, the flag is false and the  *)
(* input exists and is left with no field once the annotated one is        *)
(* removed; otherwise it succeeds. With the flag true the error is never   *)
(* thrown for that input.                                                  *)
(***************************************************************************)
C3_ZeroFields ==
    [][FieldStep =>
        LET occurrence == TheCall
            declared == host.schema[occurrence[1]].fields[occurrence[2]]
            parent == host.schema[occurrence[1]]
            valid == /\ parent.kind = "ObjectTypeDefinition"
                     /\ \E i \in 1..Len(parent.directives) : parent.directives[i].name = "model"
                     /\ declared.type[1] = "NonNullType"
            arguments == findDirective(declared, "auto")[1].arguments
            creatable == "creatable" \in DOMAIN arguments /\ arguments.creatable
            updatable == "updatable" \in DOMAIN arguments /\ arguments.updatable
            empties ==
                \/ ~creatable /\ StripsToNothing(types, ModelCreateInputObjectName(parent.name),
                                                 declared.name)
                \/ ~updatable /\ StripsToNothing(types, ModelUpdateInputObjectName(parent.name),
                                                 declared.name)
        IN  valid =>
              /\ empties => /\ last'.error.name = "InvalidDirectiveError"
                            /\ last'.error = ZeroFieldsError(declared, parent.name)
                            /\ phase' = "failed"
              /\ ~empties => last'.error = NoError /\ phase' = "visit"
    ]_vars

\* Both outcomes: the run has failed with the zero-field error ...
C3_Witness ==
    /\ phase = "failed"
    /\ last.error = ZeroFieldsError([name |-> last.field], last.type)

\* ... and a relaxed field is the only field of its input.
C3_WitnessRelax ==
    \E occurrence \in Returned :
        /\ Flag(occurrence, "creatable")
        /\ "CreatePostInput" \in DOMAIN types
        /\ Len(types["CreatePostInput"].fields) = 1
        /\ Occurrences(types["CreatePostInput"], FieldOf(occurrence).name) = {1}

(***************************************************************************)
(* C4: the handler checks, in this order, that the owning definition is no *)
(* interface, that it carries @model, and that the field type is non-null; *)
(* the first failing check decides the error. An interface field or a type *)
(* without @model gives the directive-misuse error even when the field is  *)
(* nullable; the contract-violation error is thrown only when checks 1 and *)
(* 2 pass and the field type is nullable.                                  *)
(***************************************************************************)
C4_ValidationOrder ==
    (last.op = "field") =>
        LET parent == host.schema[last.type]
            declared == CHOOSE f \in {parent.fields[i] : i \in 1..Len(parent.fields)} :
                            f.name = last.field
            isInterface == parent.kind = "InterfaceTypeDefinition"
            hasModel == \E i \in 1..Len(parent.directives) : parent.directives[i].name = "model"
            nullable == declared.type[1] # "NonNullType"
        IN  /\ isInterface =>
                  /\ last.error.name = "InvalidDirectiveError"
                  /\ last.error = InterfaceError(parent, declared)
            /\ (~isInterface /\ ~hasModel) =>
                  /\ last.error.name = "InvalidDirectiveError"
                  /\ last.error = ModelError
            /\ (~isInterface /\ hasModel /\ nullable) =>
                  /\ last.error.name = "TransformerContractError"
                  /\ last.error = NullableError
            /\ (last.error.name = "TransformerContractError") =>
                  (~isInterface /\ hasModel /\ nullable)

\* A nullable field on a type without @model has been rejected with the
\* directive-misuse error.
C4_Witness ==
    /\ last.op = "field"
    /\ last.type = "Post"
    /\ host.schema["Post"].kind = "ObjectTypeDefinition"
    /\ Len(findDirective(host.schema["Post"], "model")) = 0
    /\ \E i \in 1..Len(host.schema["Post"].fields) :
          /\ host.schema["Post"].fields[i].name = last.field
          /\ host.schema["Post"].fields[i].type = <<"String">>
    /\ last.error = ModelError

(***************************************************************************)
(* Vocabulary of the template properties                                   *)
(***************************************************************************)
AfterStep == phase = "visit" /\ phase' = "finalized"

Template(ctxResources, id) == ctxResources[id].Properties.RequestMappingTemplate

\* The recorded fragments of a type in the given slots, in that order.
Fragments(parts, typeName, slots) ==
    LET present == SelectSeq(slots, LAMBDA slot :
                       typeName \in DOMAIN parts /\ slot \in DOMAIN parts[typeName])
    IN  [i \in 1..Len(present) |-> parts[typeName][present[i]]]

\* The text of a block: the banner lines around the statements, one per line.
Block(banner, statements) ==
    <<"## [Start] " \o banner \o ". **", NL>>
        \o [i \in 1..(2 * Len(statements) - 1) |->
               IF i % 2 = 1 THEN statements[(i + 1) \div 2] ELSE NL]
        \o <<NL, "## [End] " \o banner \o ". **">>

\* Every text the @auto transformer renders, and every text of the @key snippet.
AllNames == FieldNames \cup {"id", "owner", "updatedAt"}
AutoStatements ==
    {updatedAtExpression(n) : n \in AllNames} \cup {ownerExpression(n) : n \in AllNames}
        \cup {typenameExpression(t) : t \in TypeNames}
KeyTexts == {"## [Start] Validate key arguments. **"} \cup {"$ctx.args.input." \o n : n \in AllNames}

C6_Frame ==
    [][(FieldStep /\ last'.error = NoError) =>
        LET occurrence == TheCall
            typeName == occurrence[1]
            name == host.schema[typeName].fields[occurrence[2]].name
            inputs == {ModelCreateInputObjectName(typeName), ModelUpdateInputObjectName(typeName)}
        IN  /\ DOMAIN types' = DOMAIN types
            /\ \A n \in DOMAIN types \ inputs : types'[n] = types[n]
            /\ \A n \in DOMAIN types \cap inputs :
                  /\ DOMAIN types'[n] = DOMAIN types[n]
                  /\ \A attribute \in DOMAIN types[n] \ {"fields"} :
                        types'[n][attribute] = types[n][attribute]
                  /\ SelectSeq(types'[n].fields, LAMBDA f : f.name # name)
                        = SelectSeq(types[n].fields, LAMBDA f : f.name # name)
            /\ types'[typeName] = host.types[typeName]
            /\ \A i \in Occurrences(types'[typeName], name) :
                  types'[typeName].fields[i].type[1] = "NonNullType"
    ]_vars

\* A successful call on a field of Post has rewritten both inputs of Post.
C6_Witness ==
    /\ last.op = "field" /\ last.type = "Post" /\ last.error = NoError
    /\ "CreatePostInput" \in DOMAIN types /\ "UpdatePostInput" \in DOMAIN types
    /\ types["CreatePostInput"] # host.types["CreatePostInput"]
    /\ types["UpdatePostInput"] # host.types["UpdatePostInput"]
    /\ Len(types["CreatePostInput"].fields) >= 2

(***************************************************************************)
(* C7: for each owning type the block put in front of the create resolver  *)
(* holds exactly the recorded owner fragment, then the recorded typename   *)
(* fragment, and never an updated-at statement; the block put in front of  *)
(* the update resolver holds exactly the recorded owner, updated-at and    *)
(* typename fragments in that order, each only if it was recorded.         *)
(***************************************************************************)
Prepended(id, banner, statements) ==
    (id \in DOMAIN resources) =>
        Template(resources', id) =
            IF Len(statements) = 0 THEN Template(resources, id)
            ELSE Block(banner, statements) \o <<NL, NL>> \o Template(resources, id)

IsSuffix(suffix, text) ==
    /\ Len(suffix) <= Len(text)
    /\ SubSeq(text, Len(text) - Len(suffix) + 1, Len(text)) = suffix

PrependedOnly(id, statements) ==
    LET old == Template(resources, id)
        new == Template(resources', id)
        at == Len(new) - Len(old)
    IN  \/ resources'[id] = resources[id]
        \/ /\ AfterStep
           /\ Len(statements) > 0
           /\ resources'[id] = [resources[id] EXCEPT !.Properties.RequestMappingTemplate = new]
           /\ at >= 3
           /\ IsSuffix(old, new)
           /\ new[at] = NL /\ new[at - 1] = NL /\ new[at - 2] # NL

C9_Original ==
    [][(FieldStep /\ last'.error # NoError) =>
        /\ types' = types
        /\ templateParts' = templateParts
        /\ resources' = resources
    ]_vars

(***************************************************************************)
(* C9, amended: when the handler throws a validation error, or the         *)
(* zero-field error for the create input, nothing has been committed.      *)
(* When it throws the zero-field error for the update input, the create    *)
(* input has already been rewritten by the call and stays so; the update   *)
(* input, every other type, the fragment record and the resolver templates *)
(* equal their values before the call.                                     *)
(***************************************************************************)
C9_NoCommit ==
    [][(FieldStep /\ last'.error # NoError) =>
        LET occurrence == TheCall
            typeName == occurrence[1]
            name == host.schema[typeName].fields[occurrence[2]].name
            createName == ModelCreateInputObjectName(typeName)
            updateName == ModelUpdateInputObjectName(typeName)
            fromUpdate ==
                /\ last'.error = ZeroFieldsError([name |-> name], typeName)
                /\ ~(~Flag(occurrence, "creatable") /\ StripsToNothing(types, createName, name))
        IN  /\ templateParts' = templateParts
            /\ resources' = resources
            /\ DOMAIN types' = DOMAIN types
            /\ \A n \in DOMAIN types \ {createName} : types'[n] = types[n]
            /\ ~fromUpdate => types' = types
            /\ (fromUpdate /\ createName \in DOMAIN types) =>
                  /\ ~Flag(occurrence, "creatable") =>
                        Occurrences(types'[createName], name) = {}
                  /\ Flag(occurrence, "creatable") =>
                        \A i \in Occurrences(types'[createName], name) :
                            types'[createName].fields[i].type[1] # "NonNullType"
    ]_vars

\* The first call on a field of Post has thrown the zero-field error for the update
\* input after it rewrote the create input.
C9_Witness ==
    /\ phase = "failed"
    /\ last.type = "Post"
    /\ last.error = ZeroFieldsError([name |-> last.field], "Post")
    /\ Cardinality({occurrence \in visited : occurrence[1] = "Post"}) = 1
    /\ "CreatePostInput" \in DOMAIN types
    /\ types["CreatePostInput"] # host.types["CreatePostInput"]
    /\ types["UpdatePostInput"] = host.types["UpdatePostInput"]

(***************************************************************************)
(* C10, as claimed: when the handler has returned for an @auto field that  *)
(* is listed in a primary @key of its type, is not the resolved updated-at *)
(* field and is one of the owner fields of the type's @auth rules (a       *)
(* rule's ownerField, else "owner"), the owner fragment of the type is     *)
(* recorded and names that very field.                                     *)
(***************************************************************************)
C10_Original ==
    (last.op = "field" /\ last.error = NoError) =>
        LET parent == host.schema[last.type]
            name == last.field
            directives == {parent.directives[i] : i \in 1..Len(parent.directives)}
            inPrimaryKey ==
                \E d \in directives :
                    /\ d.name = "key"
                    /\ "name" \notin DOMAIN d.arguments
                    /\ "fields" \in DOMAIN d.arguments
                    /\ \E i \in 1..Len(d.arguments.fields) : d.arguments.fields[i] = name
            updatedAtName ==
                IF \E d \in directives :
                       /\ d.name = "model"
                       /\ "timestamps" \in DOMAIN d.arguments
                       /\ "updatedAt" \in DOMAIN d.arguments.timestamps
                THEN (CHOOSE d \in directives : d.name = "model").arguments.timestamps.updatedAt
                ELSE "updatedAt"
            ownerNames ==
                UNION {{IF "ownerField" \in DOMAIN d.arguments.rules[i]
                        THEN d.arguments.rules[i].ownerField ELSE "owner" :
                            i \in 1..Len(d.arguments.rules)} :
                          d \in {a \in directives : a.name = "auth"}}
        IN  (inPrimaryKey /\ name # updatedAtName /\ name \in ownerNames) =>
                /\ parent.name \in DOMAIN templateParts
                /\ "owner" \in DOMAIN templateParts[parent.name]
                /\ templateParts[parent.name]["owner"] = ownerExpression(name)

(***************************************************************************)
(* C11: the field handler never emits resolver code. Every call of the     *)
(* handler, failed or not, leaves the whole resource map, and so every     *)
(* request template, unchanged; of the transformer's own steps only the    *)
(* finalization changes a template, and it runs when every @auto field of  *)
(* the schema has been visited. (The @key pass of the host and the fresh   *)
(* context of a new run are not steps of the transformer.)                 *)
(***************************************************************************)
KeyStep == ~keyDone /\ keyDone'
NewRunStep == run' # run

KeysOf(parent) ==
    {parent.directives[i] : i \in {j \in 1..Len(parent.directives) : parent.directives[j].name = "key"}}

\* Some @key of the type without a name argument (or, with emptyIsPrimary, with an
\* empty name) lists the field.
InPrimaryKey(parent, name, emptyIsPrimary) ==
    \E d \in KeysOf(parent) :
        /\ \/ "name" \notin DOMAIN d.arguments
           \/ emptyIsPrimary /\ d.arguments.name = ""
        /\ "fields" \in DOMAIN d.arguments
        /\ \E i \in 1..Len(d.arguments.fields) : d.arguments.fields[i] = name

DetectionOnlyFor(emptyIsPrimary) ==
    /\ FieldStep =>
          LET parent == host.schema[TheCall[1]]
              name == parent.fields[TheCall[2]].name
          IN  ~InPrimaryKey(parent, name, emptyIsPrimary) =>
                  templateParts' = templateParts /\ resources' = resources
    /\ AfterStep =>
          \A typeName \in DOMAIN host.schema :
              (\A occurrence \in AutoFields(host.schema) :
                    occurrence[1] = typeName =>
                        ~InPrimaryKey(host.schema[typeName], FieldOf(occurrence).name,
                                      emptyIsPrimary))
                 => \A id \in {DynamoDBCreateResolverResourceID(typeName),
                                DynamoDBUpdateResolverResourceID(typeName)} \cap DOMAIN resources :
                        resources'[id] = resources[id]

RunStart == phase = "visit" /\ visited = {}

C13_EmptyAtRunStart == RunStart => templateParts = EmptyObject

C13_NothingStale ==
    AfterStep =>
        \A typeName \in DOMAIN host.schema :
            (\A occurrence \in AutoFields(host.schema) :
                  occurrence[1] = typeName =>
                      ~InPrimaryKey(host.schema[typeName], FieldOf(occurrence).name, TRUE))
               => \A id \in {DynamoDBCreateResolverResourceID(typeName),
                              DynamoDBUpdateResolverResourceID(typeName)} \cap DOMAIN resources :
                      resources'[id] = resources[id]

C13_Original == [](C13_EmptyAtRunStart) /\ [][C13_NothingStale]_vars

\* The outcome the claim excludes: the second run of the instance, on a schema
\* without @key, is finalized, no field of this run recorded anything, and the
\* update template of Post has the block of the first run's fragments in front.
C13_Stale ==
    /\ run = 2
    /\ phase = "finalized"
    /\ KeysOf(host.schema["Post"]) = {}
    /\ Template(resources, "UpdatePostResolver") # Template(host.resources, "UpdatePostResolver")

C13_NotStale == ~C13_Stale

(***************************************************************************)
(* C14, as claimed: in one run, for every owning type and every order of   *)
(* the handler calls on its @auto fields, each of the slots updatedAt,     *)
(* owner and __typename of the type's record is written by at most one     *)
(* call, so no recorded fragment is overwritten.                           *)
(***************************************************************************)
Slots == {"updatedAt", "owner", "__typename"}

\* The slots the handler call for an occurrence assigns: those it leaves in a
\* record that was empty.
Written(occurrence) ==
    LET parent == host.schema[occurrence[1]]
        parts == recordTemplateParts(EmptyObject, parent, findDirective(parent, "model")[1],
                                     FieldOf(occurrence))
    IN  IF parent.name \in DOMAIN parts THEN DOMAIN parts[parent.name] ELSE {}

Writers(typeName, slot) ==
    {occurrence \in Returned : occurrence[1] = typeName /\ slot \in Written(occurrence)}

C14_Original ==
    \A typeName \in DOMAIN host.schema : \A slot \in Slots :
        Cardinality(Writers(typeName, slot)) <= 1

(***************************************************************************)
(* Where C14 does hold: on a type with at most one @key that counts as     *)
(* primary (name absent or empty). The owner slot is the one written       *)
(* twice, by two @auto owner fields that two primary @key directives list. *)
(***************************************************************************)
PrimaryKeys(parent) ==
    {i \in 1..Len(parent.directives) :
        /\ parent.directives[i].name = "key"
        /\ isPrimaryIndex(parent.directives[i])}

C14_OnePrimaryKey ==
    \A typeName \in DOMAIN host.schema : \A slot \in Slots :
        \/ Cardinality(PrimaryKeys(host.schema[typeName])) > 1
        \/ Cardinality(Writers(typeName, slot)) <= 1

\* Two @auto fields of Post have been handled, one primary @key lists both, and
\* one of them alone wrote a slot.
C14_Witness ==
    /\ Cardinality(PrimaryKeys(host.schema["Post"])) = 1
    /\ Cardinality({occurrence \in Returned : occurrence[1] = "Post"}) = 2
    /\ \A occurrence \in Returned :
          occurrence[1] = "Post" => InPrimaryKey(host.schema["Post"], FieldOf(occurrence).name, TRUE)
    /\ \E slot \in Slots : Cardinality(Writers("Post", slot)) = 1

\* The overwrite: the owner slot of Post holds the fragment of the field visited
\* last, and another visited field wrote the slot before.
C14_Overwritten ==
    /\ run = 1
    /\ Cardinality(Writers("Post", "owner")) = 2
    /\ last.op = "field" /\ last.type = "Post"
    /\ templateParts["Post"]["owner"] = ownerExpression(last.field)

C14_NotOverwritten == ~C14_Overwritten

(***************************************************************************)
(* C15, as claimed: visit-order independence. For a fixed schema the       *)
(* outcome of a run is the outcome of the run that visits the @auto fields *)
(* in document order: when the calls succeed, the registry (the Create and *)
(* Update inputs) and the resolver templates after the finalization are    *)
(* the same for every order of the visits, and a run ends in the           *)
(* zero-field error in one order exactly when it does in document order.   *)
(***************************************************************************)
\* The @auto fields of a schema in document order.
DocumentOrder(schema) ==
    LET inType(t) ==
            SelectSeq([i \in 1..Len(schema[t].fields) |-> <<t, i>>],
                      LAMBDA occurrence : occurrence \in AutoFields(schema))
    IN  inType("Comment") \o inType("Post")

\* The handler called for the occurrences in turn, up to the first throw.
RECURSIVE VisitInOrder(_, _, _)
VisitInOrder(schema, state, occurrences) ==
    IF Len(occurrences) = 0 \/ state.error # NoError THEN state
    ELSE LET parent == schema[Head(occurrences)[1]]
             fieldDefinition == parent.fields[Head(occurrences)[2]]
             directive == findDirective(fieldDefinition, "auto")[1]
         IN  VisitInOrder(schema,
                 field(state.templateParts, state.types, state.resources,
                       parent, fieldDefinition, directive),
                 Tail(occurrences))

\* The first run of an instance on the host's schema, visits in document order.
InDocumentOrder ==
    VisitInOrder(host.schema,
        [types |-> host.types, resources |-> host.resources,
         templateParts |-> EmptyObject, error |-> NoError],
        DocumentOrder(host.schema))

\* The templates the finalization leaves when it is given the fragments of the
\* document-order run.
TemplatesInDocumentOrder ==
    after(InDocumentOrder.templateParts,
          IF keyDone THEN keyLoopTypes(host.resources, host.schema, DOMAIN host.schema)
          ELSE host.resources)

IsZeroFieldsError(error) ==
    /\ error # NoError
    /\ error.name = "InvalidDirectiveError"
    /\ error # ModelError
    /\ \A occurrence \in AutoFields(host.schema) :
          error # InterfaceError(host.schema[occurrence[1]], FieldOf(occurrence))

C15_SameInputs ==
    (run = 1 /\ phase = "finalized" /\ InDocumentOrder.error = NoError) =>
        types = InDocumentOrder.types

C15_SameTemplates ==
    (run = 1 /\ phase = "finalized" /\ InDocumentOrder.error = NoError) =>
        resources = TemplatesInDocumentOrder

C15_SameZeroFieldsOutcome ==
    (run = 1 /\ phase \in {"finalized", "failed"}) =>
        (phase = "failed" /\ IsZeroFieldsError(last.error))
            <=> IsZeroFieldsError(InDocumentOrder.error)

C15_Original == C15_SameInputs /\ C15_SameTemplates /\ C15_SameZeroFieldsOutcome

(***************************************************************************)
(* What does hold of the orders: the run fails in one order exactly when   *)
(* it fails in document order (with which error depends on the order: a    *)
(* field that fails validation and a field that empties an input end the   *)
(* run with the error of the one visited first), and on a type with at     *)
(* most one primary @key the templates do not depend on the order.         *)
(***************************************************************************)
C15_SameFailure ==
    (run = 1 /\ phase \in {"finalized", "failed"}) =>
        (phase = "failed") <=> (InDocumentOrder.error # NoError)

C15_OnePrimaryKey ==
    (\A typeName \in DOMAIN host.schema : Cardinality(PrimaryKeys(host.schema[typeName])) <= 1)
        => C15_SameTemplates

\* A run that visited two @auto fields of Post, both of which recorded a fragment,
\* is finalized with the inputs and the templates of the document-order run.
C15_Witness ==
    /\ run = 1 /\ phase = "finalized"
    /\ Cardinality({occurrence \in visited : occurrence[1] = "Post"}) = 2
    /\ last.op = "after"
    /\ types = InDocumentOrder.types /\ types # host.types
    /\ resources = TemplatesInDocumentOrder
    /\ InDocumentOrder.templateParts = templateParts
    /\ "Post" \in DOMAIN templateParts /\ Cardinality(DOMAIN templateParts["Post"]) = 2

====
